---- MODULE Spec2Model ----
(***************************************************************************)
(* Model of app.py: the camera stream checker.  One upload is modelled:    *)
(* upload_file parses the row limit, process_camera_list runs              *)
(* process_csv_rows (one test_rtsp_stream call per record with an          *)
(* address), writes the text report and then the PDF report.               *)
(*                                                                         *)
(* Strings whose characters matter (camera names, addresses) are tuples of *)
(* one-character strings.  An optional value (Python None or a value) is a  *)
(* record [some, val].  Messages are tuples of the fragments the code      *)
(* concatenates.  The wall clock counts whole seconds.                     *)
(***************************************************************************)
EXTENDS Integers, Sequences, FiniteSets, TLC

\* ---------------------------------------------------------------- bounds
MaxRecords == 2      \* records in the uploaded file
MaxLimit == 1        \* largest row limit typed into the form
ShortRead == 5       \* seconds taken by a slow read that still returns
MaxDays == 1         \* day-long blocking reads allowed within one run

\* ------------------------------------------------------ program constants
TIMEOUT == 10
HEAD_NOT_FOUND == 404
HEAD_UNAUTHORIZED == 401
DaySeconds == 86400

\* ------------------------------------------------------- optional values
None == [some |-> FALSE, val |-> <<>>]
Some(v) == [some |-> TRUE, val |-> v]

\* Python truthiness of an optional string: None and "" are falsy.
Truthy(v) == v.some /\ v.val # <<>>

\* Python `a or b`.
Or(a, b) == IF Truthy(a) THEN a ELSE b

\* ------------------------------------------------------------ characters
AlnumChars == {"A", "1", "U", "n", "a", "m", "e", "d", "C", "r",
               "h", "t", "p", "s", "H", "T", "P"}

Lower(c) == CASE c = "H" -> "h"
              [] c = "T" -> "t"
              [] c = "P" -> "p"
              [] c = "A" -> "a"
              [] c = "U" -> "u"
              [] c = "C" -> "c"
              [] OTHER -> c

LowerStr(s) == [i \in 1..Len(s) |-> Lower(s[i])]

StartsWith(s, p) == Len(s) >= Len(p) /\ SubSeq(s, 1, Len(p)) = p

HttpPrefix == <<"h", "t", "t", "p">>

\* Variant: the prefix test without lower().
LooksHttpCaseSensitive(url) == StartsWith(url, HttpPrefix)

\* rtsp_url.lower().startswith("http")
LooksHttp(url) == StartsWith(LowerStr(url), HttpPrefix)

RECURSIVE LStrip(_)
LStrip(s) == IF s # <<>> /\ Head(s) = " " THEN LStrip(Tail(s)) ELSE s

RECURSIVE RStrip(_)
RStrip(s) == IF s # <<>> /\ s[Len(s)] = " "
             THEN RStrip(SubSeq(s, 1, Len(s) - 1)) ELSE s

Strip(s) == RStrip(LStrip(s))

KeepChar(c) == IF c \in AlnumChars \/ c \in {" ", "_"} THEN c ELSE "_"

ReplaceSpace(s) == [i \in 1..Len(s) |-> IF s[i] = " " THEN "_" ELSE s[i]]

\* "".join(c if c.isalnum() or c in (" ", "_") else "_" ...).strip().replace(" ", "_")
SafeName(name) == ReplaceSpace(Strip([i \in 1..Len(name) |-> KeepChar(name[i])]))

\* os.path.join(screenshot_dir, f"{safe_name}_{timestamp}.jpg"); the
\* timestamp has a resolution of one second.
ScreenshotFile(name, clock) == <<SafeName(name), clock>>

\* ------------------------------------------------------- the upload form
Digits == <<"0", "1", "2", "3", "4", "5", "6", "7", "8", "9">>

IsDigit(c) == \E i \in 1..10 : Digits[i] = c

DigitVal(c) == (CHOOSE i \in 1..10 : Digits[i] = c) - 1

RECURSIVE DigitsVal(_)
DigitsVal(s) == IF s = <<>> THEN 0
                ELSE DigitsVal(SubSeq(s, 1, Len(s) - 1)) * 10 + DigitVal(s[Len(s)])

AllDigits(s) == s # <<>> /\ \A i \in 1..Len(s) : IsDigit(s[i])

\* int(s): a ValueError is reported as ok = FALSE.
ParseInt(s) ==
    IF AllDigits(s) THEN [ok |-> TRUE, val |-> DigitsVal(s)]
    ELSE IF s # <<>> /\ Head(s) = "-" /\ AllDigits(Tail(s))
         THEN [ok |-> TRUE, val |-> 0 - DigitsVal(Tail(s))]
    ELSE IF s # <<>> /\ Head(s) = "+" /\ AllDigits(Tail(s))
         THEN [ok |-> TRUE, val |-> DigitsVal(Tail(s))]
    ELSE [ok |-> FALSE, val |-> 0]

\* max_streams = int(max_streams) if max_streams else None, ValueError -> None
NoLimit == [some |-> FALSE, val |-> 0]

ParseMaxStreams(form) ==
    IF ~Truthy(form) THEN NoLimit
    ELSE IF ParseInt(form.val).ok THEN Some(ParseInt(form.val).val)
    ELSE NoLimit

\* The decimal text of a small integer, as typed into the form.
Numeral(k) == IF k < 0 THEN <<"-", Digits[(0 - k) + 1]>> ELSE <<Digits[k + 1]>>

FormValues == {None, Some(<<>>), Some(<<"a">>)}
              \cup {Some(Numeral(k)) : k \in (0 - 1)..MaxLimit}

\* ------------------------------------------------------ the uploaded file
Columns == {"Camera Name", "Client Camera Name", "RTSP URL", "URL"}

Rec(cn, ccn, ru, u) ==
    ("Camera Name" :> cn) @@ ("Client Camera Name" :> ccn)
    @@ ("RTSP URL" :> ru) @@ ("URL" :> u)

NameA1 == <<"A", " ", "1">>
NameA_1 == <<"A", "-", "1">>
UrlRtsp == <<"r", "t", "s", "p", ":">>
UrlHttp == <<"h", "t", "t", "p", ":">>
UrlHTTP == <<"H", "T", "T", "P", ":">>

RecordSet ==
    { Rec(Some(NameA1), None, Some(UrlRtsp), None),
      Rec(None, Some(NameA_1), None, Some(UrlHttp)),
      Rec(Some(<<>>), None, Some(<<>>), Some(UrlHTTP)),
      Rec(None, None, None, None),
      Rec(Some(NameA1), Some(NameA_1), None, Some(<<>>)) }

Files == UNION {[1..n -> RecordSet] : n \in 0..MaxRecords}

\* row.get(column)
Get(row, column) == row[column]

UNNAMED == <<"U", "n", "n", "a", "m", "e", "d", "_", "C", "a", "m", "e", "r", "a">>

\* row.get("Camera Name") or row.get("Client Camera Name") or "Unnamed_Camera"
ResolveName(row) ==
    Or(Or(Get(row, "Camera Name"), Get(row, "Client Camera Name")), Some(UNNAMED)).val

\* row.get("RTSP URL") or row.get("URL")
ResolveUrl(row) == Or(Get(row, "RTSP URL"), Get(row, "URL"))

\* ------------------------------------------------------------- messages
MSG_NO_URL == "No URL provided."
MSG_SUCCESS == "Stream opened successfully and screenshot captured."
MSG_FAILED == "Failed to capture a frame from the stream."
MSG_NON_HTTP == " (No additional HTTP error details available for non-HTTP URLs)"
MSG_NOT_FOUND == " Not Found (404)."
MSG_UNAUTHORIZED == " Unauthorized (401)."
MSG_ERROR_PREFIX == "Error: "
MSG_EMBED_ERROR == "Error embedding screenshot: "

StatusCodes == {200, HEAD_UNAUTHORIZED, HEAD_NOT_FOUND}

\* f" HTTP status code: {response.status_code}."
StatusCodeText(code) ==
    CASE code = 200 -> " HTTP status code: 200."
      [] code = 401 -> " HTTP status code: 401."
      [] code = 404 -> " HTTP status code: 404."

\* f" Additionally, HTTP HEAD request failed with error: {e}"
HeadErrorText(exc) ==
    CASE exc = "ConnectionError" ->
             " Additionally, HTTP HEAD request failed with error: ConnectionError"

\* What requests.head does: a response with a status code, or an exception
\* of the requests.exceptions.RequestException family.
HeadResponses ==
    {[raised |-> FALSE, code |-> c, exc |-> "none"] : c \in StatusCodes}
    \cup {[raised |-> TRUE, code |-> 0, exc |-> e] : e \in {"ConnectionError"}}

\* Variant: the helper without its except clause.
HelperCatchesNothing(exc) == FALSE

\* except requests.exceptions.RequestException
HelperCatches(exc) == exc \in {"RequestException", "ConnectionError", "Timeout"}

\* get_http_error_details on a response or a caught exception.
HttpErrorDetails(resp) ==
    IF resp.raised THEN <<HeadErrorText(resp.exc)>>
    ELSE IF resp.code = HEAD_NOT_FOUND THEN <<StatusCodeText(resp.code), MSG_NOT_FOUND>>
    ELSE IF resp.code = HEAD_UNAUTHORIZED
         THEN <<StatusCodeText(resp.code), MSG_UNAUTHORIZED>>
    ELSE <<StatusCodeText(resp.code)>>

\* What pdf.image raises on a missing, unreadable or corrupt file.
ImageErrors == {"RuntimeError", "OSError"}

\* Variant: except RuntimeError only.
PdfCatchesRuntimeOnly(exc) == exc = "RuntimeError"

\* except (RuntimeError, OSError)
PdfCatches(exc) == exc \in {"RuntimeError", "OSError"}

\* ------------------------------------------------------------ report rows
Row(name, url, status, notes, shot) ==
    [CameraName |-> name, ProvidedURL |-> url, Status |-> status,
     Notes |-> notes, Screenshot |-> shot]

\* Variant: the missing-address note formatted like a probe failure.
MissingUrlRowPrefixed(name) ==
    Row(name, <<>>, "Not Valid", <<MSG_ERROR_PREFIX, MSG_NO_URL>>, None)

\* The row appended when no address resolves.
MissingUrlRow(name) == Row(name, <<>>, "Not Valid", <<MSG_NO_URL>>, None)

\* Variant: the screenshot path is dropped from every row.
ProbeRowNoShot(name, url, status, path, msg) ==
    Row(name, url,
        IF status THEN "Valid" ELSE "Not Valid",
        IF status THEN msg ELSE <<MSG_ERROR_PREFIX>> \o msg,
        None)

\* The row appended from the prober's (status, screenshot_path, msg).
ProbeRow(name, url, status, path, msg) ==
    Row(name, url,
        IF status THEN "Valid" ELSE "Not Valid",
        IF status THEN msg ELSE <<MSG_ERROR_PREFIX>> \o msg,
        IF status THEN path ELSE None)

\* Variant: report_rows.insert(0, row).
AppendRowFront(rows, r) == <<r>> \o rows

AppendRow(rows, r) == Append(rows, r)

\* Variant: count > max_streams.
LimitReachedOffByOne(limit, c) == limit.some /\ c > limit.val

\* max_streams is not None and count >= max_streams
LimitReached(limit, c) == limit.some /\ c >= limit.val

\* (datetime.now() - start_time).seconds: the seconds field of a timedelta,
\* which is the difference reduced modulo one day.
Seconds(delta) == delta % DaySeconds

\* (datetime.now() - start_time).seconds < timeout
KeepPolling(clock, start) == Seconds(clock - start) < TIMEOUT

\* Variant: the release call is missing.
ReleaseNoop(c) == c

\* cap.release()
Release(c) == "released"

\* ------------------------------------------------------------- renderers
TextBlock(row) == <<row.CameraName, row.ProvidedURL, row.Status, row.Notes, "rule">>

TextRender(rows) == <<"banner">> \o [i \in 1..Len(rows) |-> TextBlock(rows[i])]

PdfBlock(row, slot) ==
    [CameraName |-> row.CameraName, ProvidedURL |-> row.ProvidedURL,
     Status |-> row.Status, Notes |-> row.Notes, slot |-> slot, rule |-> TRUE]

\* ------------------------------------------------------------------ state
VARIABLES
    input_csv,     \* the records of the uploaded file, in file order
    max_streams,   \* the row limit handed to process_csv_rows
    pc,            \* where process_camera_list is
    count,         \* process_csv_rows: records consumed so far
    report_rows,   \* process_csv_rows: the accumulated rows
    camera_name,   \* test_rtsp_stream: argument
    rtsp_url,      \* test_rtsp_stream: argument
    cap,           \* the decoding session: "none", "open" or "released"
    isOpened,      \* whether the session really opened the stream
    start_time,    \* test_rtsp_stream: clock value when polling began
    now,           \* the wall clock, in seconds
    success,       \* test_rtsp_stream: local
    frame,         \* test_rtsp_stream: local
    files,         \* screenshot files present in the output directory
    head_calls,    \* indices of the records the HTTP helper was invoked for
    probe_calls,   \* indices of the records the prober was invoked for
    text_report,   \* content of client_report.txt
    pdf_doc,       \* the row blocks added to the PDF so far
    outputs        \* report files written

vars == <<input_csv, max_streams, pc, count, report_rows, camera_name, rtsp_url,
          cap, isOpened, start_time, now, success, frame, files, head_calls,
          probe_calls, text_report, pdf_doc, outputs>>

probeLocals == <<camera_name, rtsp_url, cap, isOpened, start_time, success, frame>>
reports == <<text_report, pdf_doc, outputs>>

FRAME == Some(<<"img">>)

\* Durations of one cap.read() call: immediate, slow, or blocked for a day.
ReadDurs == {0, ShortRead, DaySeconds}

\* (ret, frame) pairs cap.read() can return.
ReadResults(opened) ==
    {[ret |-> FALSE, frame |-> None], [ret |-> TRUE, frame |-> None]}
    \cup (IF opened THEN {[ret |-> TRUE, frame |-> FRAME]} ELSE {})

Init ==
    /\ input_csv \in Files
    /\ max_streams \in {ParseMaxStreams(f) : f \in FormValues}
    /\ pc = "rows"
    /\ count = 0
    /\ report_rows = <<>>
    /\ camera_name = <<>>
    /\ rtsp_url = <<>>
    /\ cap = "none"
    /\ isOpened = FALSE
    /\ start_time = 0
    /\ now = 0
    /\ success = FALSE
    /\ frame = None
    /\ files = {}
    /\ head_calls = {}
    /\ probe_calls = {}
    /\ text_report = <<>>
    /\ pdf_doc = <<>>
    /\ outputs = {}

\* The for loop goes on: the reader has a record left and the limit allows it.
HasNext == count < Len(input_csv) /\ ~LimitReached(max_streams, count)

\* process_csv_rows returns: the reader is exhausted or the limit is reached.
LoopEnd ==
    /\ pc = "rows"
    /\ ~HasNext
    /\ pc' = "text"
    /\ UNCHANGED <<input_csv, max_streams, count, report_rows, probeLocals, now,
                   files, head_calls, probe_calls, reports>>

\* One iteration for a record without an address.
NoUrlRow ==
    /\ pc = "rows"
    /\ HasNext
    /\ LET row == input_csv[count + 1] IN
         /\ ~Truthy(ResolveUrl(row))
         /\ report_rows' = AppendRow(report_rows, MissingUrlRow(ResolveName(row)))
    /\ count' = count + 1
    /\ UNCHANGED <<input_csv, max_streams, pc, probeLocals, now, files, head_calls,
                   probe_calls, reports>>

\* One iteration for a record with an address, up to the prober's polling loop:
\* cv2.VideoCapture(rtsp_url), start_time, success, frame.
CallProbe ==
    /\ pc = "rows"
    /\ HasNext
    /\ LET row == input_csv[count + 1] IN
         /\ Truthy(ResolveUrl(row))
         /\ camera_name' = ResolveName(row)
         /\ rtsp_url' = ResolveUrl(row).val
    /\ cap' = "open"
    /\ isOpened' \in BOOLEAN
    /\ start_time' = now
    /\ success' = FALSE
    /\ frame' = None
    /\ probe_calls' = probe_calls \cup {count + 1}
    /\ pc' = "poll"
    /\ UNCHANGED <<input_csv, max_streams, count, report_rows, now, files,
                   head_calls, reports>>

\* One pass of the while loop: the deadline test, then a read.
ReadFrame ==
    /\ pc = "poll"
    /\ KeepPolling(now, start_time)
    /\ \E d \in ReadDurs, r \in ReadResults(isOpened) :
         /\ d = DaySeconds => now + d < (MaxDays + 1) * DaySeconds
         /\ now' = now + d
         /\ frame' = r.frame
         /\ IF r.ret /\ r.frame # None
            THEN success' = TRUE /\ pc' = "persist"
            ELSE UNCHANGED <<success, pc>>
    /\ UNCHANGED <<input_csv, max_streams, count, report_rows, camera_name, rtsp_url,
                   cap, isOpened, start_time, files, head_calls, probe_calls, reports>>

\* The while condition is false: the loop ends without a frame.
LoopExit ==
    /\ pc = "poll"
    /\ ~KeepPolling(now, start_time)
    /\ pc' = "fail"
    /\ UNCHANGED <<input_csv, max_streams, count, report_rows, probeLocals, now,
                   files, head_calls, probe_calls, reports>>

ResetLocals ==
    /\ camera_name' = <<>>
    /\ rtsp_url' = <<>>
    /\ isOpened' = FALSE
    /\ start_time' = 0
    /\ success' = FALSE
    /\ frame' = None

\* The success branch of the prober, and the rest of the iteration.
SuccessReturn ==
    /\ pc = "persist"
    /\ LET screenshot_file == ScreenshotFile(camera_name, now) IN
         /\ \E written \in BOOLEAN :
              files' = IF written THEN files \cup {screenshot_file} ELSE files
         /\ report_rows' = AppendRow(report_rows,
               ProbeRow(camera_name, rtsp_url, TRUE, Some(screenshot_file),
                        <<MSG_SUCCESS>>))
    /\ cap' = Release(cap)
    /\ count' = count + 1
    /\ pc' = "rows"
    /\ ResetLocals
    /\ UNCHANGED <<input_csv, max_streams, now, head_calls, probe_calls, reports>>

\* The failure branch of the prober, and the rest of the iteration.  An
\* exception the helper does not catch leaves the run.
FailReturn ==
    /\ pc = "fail"
    /\ IF LooksHttp(rtsp_url)
       THEN \E resp \in HeadResponses :
              /\ head_calls' = head_calls \cup {count + 1}
              /\ IF resp.raised /\ ~HelperCatches(resp.exc)
                 THEN /\ pc' = "aborted"
                      /\ UNCHANGED <<report_rows, count, probeLocals>>
                 ELSE /\ report_rows' = AppendRow(report_rows,
                            ProbeRow(camera_name, rtsp_url, FALSE, None,
                                     <<MSG_FAILED>> \o HttpErrorDetails(resp)))
                      /\ cap' = Release(cap)
                      /\ count' = count + 1
                      /\ pc' = "rows"
                      /\ ResetLocals
       ELSE /\ report_rows' = AppendRow(report_rows,
                  ProbeRow(camera_name, rtsp_url, FALSE, None,
                           <<MSG_FAILED, MSG_NON_HTTP>>))
            /\ cap' = Release(cap)
            /\ count' = count + 1
            /\ pc' = "rows"
            /\ ResetLocals
            /\ UNCHANGED head_calls
    /\ UNCHANGED <<input_csv, max_streams, now, files, probe_calls, reports>>

\* process_camera_list writes client_report.txt.
WriteTextReport ==
    /\ pc = "text"
    /\ text_report' = TextRender(report_rows)
    /\ outputs' = outputs \cup {"text"}
    /\ pc' = "pdf"
    /\ UNCHANGED <<input_csv, max_streams, count, report_rows, probeLocals, now,
                   files, head_calls, probe_calls, pdf_doc>>

\* generate_pdf_report: one pass of the loop over the rows.
PdfRow ==
    /\ pc = "pdf"
    /\ Len(pdf_doc) < Len(report_rows)
    /\ LET row == report_rows[Len(pdf_doc) + 1] IN
         IF row.Screenshot.some
         THEN \/ /\ row.Screenshot.val \in files
                 /\ pdf_doc' = Append(pdf_doc, PdfBlock(row, "image"))
                 /\ pc' = pc
              \/ \E exc \in ImageErrors :
                   IF PdfCatches(exc)
                   THEN /\ pdf_doc' = Append(pdf_doc,
                               PdfBlock(row, MSG_EMBED_ERROR))
                        /\ pc' = pc
                   ELSE /\ pc' = "aborted"
                        /\ UNCHANGED pdf_doc
         ELSE /\ pdf_doc' = Append(pdf_doc, PdfBlock(row, "none"))
              /\ pc' = pc
    /\ UNCHANGED <<input_csv, max_streams, count, report_rows, probeLocals, now,
                   files, head_calls, probe_calls, text_report, outputs>>

\* generate_pdf_report: pdf.output, and process_camera_list returns.
PdfOutput ==
    /\ pc = "pdf"
    /\ Len(pdf_doc) = Len(report_rows)
    /\ outputs' = outputs \cup {"pdf"}
    /\ pc' = "done"
    /\ UNCHANGED <<input_csv, max_streams, count, report_rows, probeLocals, now,
                   files, head_calls, probe_calls, text_report, pdf_doc>>

Next ==
    \/ LoopEnd
    \/ NoUrlRow
    \/ CallProbe
    \/ ReadFrame
    \/ LoopExit
    \/ SuccessReturn
    \/ FailReturn
    \/ WriteTextReport
    \/ PdfRow
    \/ PdfOutput

Spec == Init /\ [][Next]_vars

\* The interpreter keeps running the one thread there is.
FairSpec == Spec /\ WF_vars(Next)

\* ============================================================ properties
Range(f) == {f[i] : i \in DOMAIN f}

Min(a, b) == IF a <= b THEN a ELSE b

IsPrefix(a, b) == Len(a) <= Len(b) /\ SubSeq(b, 1, Len(a)) = a

RowsReturned == pc \in {"text", "pdf", "done"}

Probing == pc \in {"poll", "persist", "fail"}

IsValid(r) == r.Status = "Valid"

\* A probe of this row's address failed.
ProbeFailed(r) == r.Status = "Not Valid" /\ r.ProvidedURL # <<>>

FieldEmpty(rec, column) == ~rec[column].some \/ rec[column].val = <<>>

NoAddress(rec) == FieldEmpty(rec, "RTSP URL") /\ FieldEmpty(rec, "URL")

NoNameField(rec) == ~rec["Camera Name"].some /\ ~rec["Client Camera Name"].some

ExpectedName(rec) ==
    IF ~FieldEmpty(rec, "Camera Name") THEN rec["Camera Name"].val
    ELSE IF ~FieldEmpty(rec, "Client Camera Name") THEN rec["Client Camera Name"].val
    ELSE UNNAMED

ExpectedUrl(rec) ==
    IF ~FieldEmpty(rec, "RTSP URL") THEN rec["RTSP URL"].val
    ELSE IF ~FieldEmpty(rec, "URL") THEN rec["URL"].val
    ELSE <<>>

\* The address begins with "http", compared as written.
BeginsHttp(url) == Len(url) >= 4 /\ SubSeq(url, 1, 4) = <<"h", "t", "t", "p">>

\* The address begins with "http" in any letter case.
BeginsHttpAnyCase(url) ==
    /\ Len(url) >= 4
    /\ url[1] \in {"h", "H"}
    /\ url[2] \in {"t", "T"}
    /\ url[3] \in {"t", "T"}
    /\ url[4] \in {"p", "P"}

StatusAnnotations ==
    {" HTTP status code: 200.", " HTTP status code: 401.", " HTTP status code: 404."}

ErrorAnnotations ==
    {" Additionally, HTTP HEAD request failed with error: ConnectionError"}

HasHttpAnnotation(r) ==
    \E n \in Range(r.Notes) : n \in StatusAnnotations \cup ErrorAnnotations

HasNonHttpAnnotation(r) ==
    " (No additional HTTP error details available for non-HTTP URLs)" \in Range(r.Notes)

\* ------------------------------------------------------------------- C1
\* C1 as stated: when the row processor has returned, the number of rows is
\* the number of records if the limit is absent or <= 0, and
\* min(records, limit) if the limit is positive.
C1_AsStated ==
    RowsReturned =>
        Len(report_rows) =
            IF ~max_streams.some \/ max_streams.val <= 0 THEN Len(input_csv)
            ELSE Min(Len(input_csv), max_streams.val)

\* C1 amended: when the row processor has returned, the number of rows is the
\* number of records if the limit is absent, 0 if the limit is an integer
\* <= 0, and min(records, limit) if the limit is positive.
C1_RowCount ==
    RowsReturned =>
        Len(report_rows) =
            IF ~max_streams.some THEN Len(input_csv)
            ELSE IF max_streams.val <= 0 THEN 0
            ELSE Min(Len(input_csv), max_streams.val)

C1_Witness ==
    /\ pc = "done"
    /\ max_streams.some /\ max_streams.val = 1
    /\ Len(input_csv) = 2
    /\ Len(report_rows) = 1

\* ------------------------------------------------------------------- C2
\* C2: in every state of the accumulated row list a row's Status is "Valid"
\* exactly when its Screenshot is not None, and every step leaves the rows
\* already appended in place and unchanged.
C2_ValidIffScreenshot ==
    /\ [](\A i \in 1..Len(report_rows) :
            IsValid(report_rows[i]) <=> report_rows[i].Screenshot.some)
    /\ [][IsPrefix(report_rows, report_rows')]_vars

C2_Witness ==
    /\ Len(report_rows) = 2
    /\ IsValid(report_rows[1]) /\ report_rows[1].Screenshot.some
    /\ ~IsValid(report_rows[2]) /\ ~report_rows[2].Screenshot.some

\* ------------------------------------------------------------------- C3
\* C3: a record without an address yields, at its position, one row with
\* Provided URL "", Status "Not Valid", Notes "No URL provided." and no
\* screenshot, the prober is not invoked for it, and without a name field the
\* row's Camera Name is "Unnamed_Camera".
C3_MissingAddress ==
    /\ Len(report_rows) = count
    /\ \A i \in 1..Len(report_rows) :
         NoAddress(input_csv[i]) =>
            /\ report_rows[i].ProvidedURL = <<>>
            /\ report_rows[i].Status = "Not Valid"
            /\ report_rows[i].Notes = <<"No URL provided.">>
            /\ ~report_rows[i].Screenshot.some
            /\ i \notin probe_calls
            /\ NoNameField(input_csv[i]) => report_rows[i].CameraName = UNNAMED
    /\ \A i \in probe_calls : ~NoAddress(input_csv[i])

C3_Witness ==
    /\ Len(report_rows) = 2
    /\ NoAddress(input_csv[1]) /\ NoNameField(input_csv[1])
    /\ NoAddress(input_csv[2]) /\ ~NoNameField(input_csv[2])
    /\ report_rows[2].CameraName = NameA1

\* ------------------------------------------------------------------- C4
\* The part of C4 that does not depend on how the prefix is compared: the
\* helper runs only for failed probes and never changes the Status.
HelperOnlyOnFailure ==
    \A i \in 1..Len(report_rows) :
        /\ IsValid(report_rows[i]) => i \notin head_calls
        /\ i \in head_calls => report_rows[i].Status = "Not Valid"

\* C4 as stated: after a failed probe, an address that begins with "http" has
\* the helper invoked and its annotation in the Notes, any other address has no
\* helper call and the fixed non-HTTP annotation; the Status stays "Not Valid"
\* and the helper is never invoked after a successful probe.
C4_AsStated ==
    /\ HelperOnlyOnFailure
    /\ \A i \in 1..Len(report_rows) :
         ProbeFailed(report_rows[i]) =>
            IF BeginsHttp(report_rows[i].ProvidedURL)
            THEN i \in head_calls /\ HasHttpAnnotation(report_rows[i])
            ELSE i \notin head_calls /\ HasNonHttpAnnotation(report_rows[i])

\* C4 amended: the same, with "begins with http" read in any letter case.
C4_HttpDiagnostics ==
    /\ HelperOnlyOnFailure
    /\ \A i \in 1..Len(report_rows) :
         ProbeFailed(report_rows[i]) =>
            IF BeginsHttpAnyCase(report_rows[i].ProvidedURL)
            THEN /\ i \in head_calls
                 /\ HasHttpAnnotation(report_rows[i])
                 /\ ~HasNonHttpAnnotation(report_rows[i])
            ELSE /\ i \notin head_calls
                 /\ HasNonHttpAnnotation(report_rows[i])
                 /\ ~HasHttpAnnotation(report_rows[i])

C4_Witness ==
    /\ Len(report_rows) = 2
    /\ ProbeFailed(report_rows[1]) /\ report_rows[1].ProvidedURL = UrlHTTP
    /\ 1 \in head_calls
    /\ ProbeFailed(report_rows[2]) /\ report_rows[2].ProvidedURL = UrlRtsp
    /\ 2 \notin head_calls

\* ------------------------------------------------------------------- C5
\* C5: the i-th row carries the resolved name and address of the i-th record;
\* whenever the loop is about to read a record every earlier probe is over
\* (its session released, its row appended); while a record is probed no later
\* record has been touched; and both reports list the rows in the same order.
C5_InputOrder ==
    /\ Len(report_rows) = count
    /\ \A i \in 1..Len(report_rows) :
         /\ report_rows[i].CameraName = ExpectedName(input_csv[i])
         /\ report_rows[i].ProvidedURL = ExpectedUrl(input_csv[i])
    /\ pc = "rows" => cap # "open"
    /\ \A i \in probe_calls : i <= count + 1
    /\ Probing => (count + 1) \in probe_calls
    /\ ~Probing => \A i \in probe_calls : i <= count
    /\ "text" \in outputs =>
         /\ Len(text_report) = Len(report_rows) + 1
         /\ \A i \in 1..Len(report_rows) :
              /\ text_report[i + 1][1] = report_rows[i].CameraName
              /\ text_report[i + 1][2] = report_rows[i].ProvidedURL
              /\ text_report[i + 1][3] = report_rows[i].Status
              /\ text_report[i + 1][4] = report_rows[i].Notes
    /\ Len(pdf_doc) <= Len(report_rows)
    /\ \A i \in 1..Len(pdf_doc) :
         /\ pdf_doc[i].CameraName = report_rows[i].CameraName
         /\ pdf_doc[i].ProvidedURL = report_rows[i].ProvidedURL
         /\ pdf_doc[i].Status = report_rows[i].Status
         /\ pdf_doc[i].Notes = report_rows[i].Notes

C5_Witness ==
    /\ pc = "done"
    /\ Len(report_rows) = 2
    /\ report_rows[1].CameraName = UNNAMED
    /\ report_rows[2].CameraName = NameA_1
    /\ IsValid(report_rows[2])

\* ------------------------------------------------------------------- C6
\* The reader is exhausted or the limit stopped the loop.
AllProcessed ==
    \/ count = Len(input_csv)
    \/ max_streams.some /\ count >= max_streams.val

C7_PdfDegrades ==
    /\ pc # "aborted"
    /\ \A i \in 1..Len(pdf_doc) :
         /\ pdf_doc[i].rule
         /\ pdf_doc[i].slot \in {"none", "image", "Error embedding screenshot: "}
         /\ pdf_doc[i].slot = "none" <=> ~report_rows[i].Screenshot.some
         /\ (report_rows[i].Screenshot.some /\ report_rows[i].Screenshot.val \notin files)
               => pdf_doc[i].slot = "Error embedding screenshot: "
         /\ pdf_doc[i].slot = "image" => report_rows[i].Screenshot.val \in files
    /\ pc = "done" => Len(pdf_doc) = Len(report_rows) /\ "pdf" \in outputs

C7_Witness ==
    /\ pc = "done"
    /\ Len(pdf_doc) = 2
    /\ pdf_doc[1].slot = "Error embedding screenshot: "
    /\ pdf_doc[1].rule
    /\ pdf_doc[2].slot = "image"
    /\ "pdf" \in outputs

\* ------------------------------------------------------------------- C8
\* C8: whenever the prober is not executing, no decoding session is open.
C8_Released == ~Probing => cap # "open"

C8_Witness ==
    /\ Len(report_rows) = 2
    /\ ProbeFailed(report_rows[1])
    /\ IsValid(report_rows[2])
    /\ cap = "released"

\* ------------------------------------------------------------------- C9
\* C9 as stated: any two Valid rows of one run reference different files.
C9_UniqueScreenshots ==
    \A i, j \in 1..Len(report_rows) :
        (i < j /\ IsValid(report_rows[i]) /\ IsValid(report_rows[j]))
            => report_rows[i].Screenshot # report_rows[j].Screenshot

\* ------------------------------------------------------------------ C10
\* C10 as stated: the prober goes on polling only while the elapsed time is
\* below the timeout, it reports success only with the frame of a read, and it
\* reports failure only when the elapsed time has reached the timeout and no
\* read yielded a frame.
C10_PollsUntilTimeout ==
    /\ (pc = "poll" /\ now - start_time >= TIMEOUT) => ~ENABLED ReadFrame
    /\ pc = "persist" => success /\ frame = FRAME
    /\ pc = "fail" => ~success /\ now - start_time >= TIMEOUT

====
